---- MODULE Spec2Model ----
(***************************************************************************)
(* Verification model of                                                   *)
(*   app/api/services/api_clients/base_service.py  (BaseService)           *)
(*   app/models.py                                 (the RBAC schema)       *)
(*                                                                         *)
(* Spec    : concurrent invocations of BaseService.make_request.           *)
(* SpecDb  : INSERT / DELETE statements against the declared tables.       *)
(***************************************************************************)
EXTENDS Integers, Sequences, FiniteSets, TLC

\* ------------------------------------------------------------------ bounds

\* Number of concurrent make_request invocations (asyncio tasks).
NumCalls == 2

Calls == 1..NumCalls

\* Rows the database holds at most, over all tables.
MaxRows == 4

\* Primary-key values, and values of the unique string columns (email,
\* refresh_token, name), that statements offer.
Keys == {1, 2}
Names == {"a", "b"}

\* ------------------------------------------------- BaseService: constants

\* timeout=15 passed to client.get
Timeout == 15

\* ------------------------------------------------- BaseService: the inputs

\* Concrete subclasses of BaseService: the two abstract hooks are supplied by
\* the subclass, so the model draws the service object (`self`, on which the
\* invocations run concurrently) from a few sample subclasses.
\*   "strict"     parse_response validates that the JSON is an object
\*   "lenient"    parse_response wraps whatever JSON it is given
\*   "broken"     parse_response always raises
\*   "noendpoint" get_endpoint raises
Services == {"strict", "lenient", "broken", "noendpoint"}

\* Sample request models: "aliased" has a field user_name aliased to
\* username; "custom" has a field serializer that raises on dump.
Requests == {"aliased", "custom"}

BaseUrl == "https://api.example.com"
AccessToken == "tok"

\* Response bodies are byte strings: empty, "1" (0x31), "{}" (0x7B 0x7D),
\* and the single byte 0xFF, which is never valid UTF-8.
Bodies == { <<>>, <<49>>, <<123, 125>>, <<255>> }

\* Status codes: the ends of the 2xx range, a redirect and a client error.
Statuses == {200, 299, 300, 404}

\* Transport faults raised by client.get (subclasses of Exception).
TransportErrors == {"ConnectError", "ReadTimeout"}

\* ----------------------------------------------- BaseService: exceptions

Exc(type, origin) == [type |-> type, origin |-> origin]

NoExc == Exc("", "")

\* ------------------------------------------- BaseService: pure functions

\* get_endpoint(): the subclass hook.
get_endpoint(self) ==
    IF self = "noendpoint"
    THEN [ok |-> FALSE, value |-> "", exc |-> Exc("NotImplementedError", "get_endpoint")]
    ELSE [ok |-> TRUE, value |-> "/v1/lookup", exc |-> NoExc]

\* url = f"{base_url}{endpoint}": plain concatenation, kept as the two parts.
Url(base_url, endpoint) == <<base_url, endpoint>>

\* headers = {"Authorization": f"Bearer {access_token}"}
Headers(access_token) == [Authorization |-> <<"Bearer ", access_token>>]

\* request_data.model_dump(by_alias=True): field names replaced by aliases.
model_dump(request_data) ==
    IF request_data = "aliased"
    THEN [ok |-> TRUE, value |-> {<<"username", "bob">>}, exc |-> NoExc]
    ELSE [ok |-> FALSE, value |-> {},
          exc |-> Exc("PydanticSerializationError", "model_dump")]

\* bytes.decode('utf-8'): TRUE iff the byte string is well-formed UTF-8
\* (one-, two-, three- and four-byte forms).
RECURSIVE IsUtf8(_)
IsUtf8(b) ==
    LET Cont(k) == k <= Len(b) /\ b[k] >= 128 /\ b[k] <= 191
        Rest(n) == SubSeq(b, n + 1, Len(b))
    IN  IF b = <<>> THEN TRUE
        ELSE IF b[1] < 128 THEN IsUtf8(Rest(1))
        ELSE IF b[1] >= 194 /\ b[1] <= 223
             THEN Cont(2) /\ IsUtf8(Rest(2))
        ELSE IF b[1] >= 224 /\ b[1] <= 239
             THEN Cont(2) /\ Cont(3) /\ IsUtf8(Rest(3))
        ELSE IF b[1] >= 240 /\ b[1] <= 244
             THEN Cont(2) /\ Cont(3) /\ Cont(4) /\ IsUtf8(Rest(4))
        ELSE FALSE

\* Value of a non-empty string of ASCII digits.
RECURSIVE DigitsValue(_)
DigitsValue(b) ==
    IF b = <<>> THEN 0
    ELSE 10 * DigitsValue(SubSeq(b, 1, Len(b) - 1)) + (b[Len(b)] - 48)

IsDigits(b) ==
    /\ b # <<>>
    /\ \A k \in 1..Len(b) : b[k] >= 48 /\ b[k] <= 57
    /\ (Len(b) > 1 => b[1] # 48)

\* response.json(): json.loads of the body.  Decides the JSON documents that
\* occur in Bodies: an integer literal and the empty object; every other
\* byte string of Bodies is not a JSON document and raises.
ResponseJson(content) ==
    IF IsDigits(content)
    THEN [ok |-> TRUE, value |-> [type |-> "int", n |-> DigitsValue(content)],
          exc |-> NoExc]
    ELSE IF content = <<123, 125>>
    THEN [ok |-> TRUE, value |-> [type |-> "dict", n |-> 0], exc |-> NoExc]
    ELSE IF IsUtf8(content)
    THEN [ok |-> FALSE, value |-> [type |-> "", n |-> 0],
          exc |-> Exc("JSONDecodeError", "json")]
    ELSE [ok |-> FALSE, value |-> [type |-> "", n |-> 0],
          exc |-> Exc("UnicodeDecodeError", "json")]

\* An instance of ResponseType built from decoded JSON.
ResponseType(self, json) == [type |-> "ResponseType", n |-> json.n + 1000]

\* parse_response(response_data): the subclass hook.
parse_response(self, json) ==
    IF self = "broken" \/ (self = "strict" /\ json.type # "dict")
    THEN [ok |-> FALSE, value |-> [type |-> "", n |-> 0],
          exc |-> Exc("ValidationError", "parse_response")]
    ELSE [ok |-> TRUE, value |-> ResponseType(self, json), exc |-> NoExc]

\* response.raise_for_status(): raises HTTPStatusError unless is_success.
IsSuccess(status) == status >= 200 /\ status <= 299

\* ------------------------------------------------ BaseService: the state

VARIABLES
    service,    \* self: the BaseService subclass instance
    pc,         \* per invocation: where make_request stands
    args,       \* per invocation: request_data
    frame,      \* per invocation: the locals url, headers, params
    client,     \* per invocation: the AsyncClient it constructed (0: none)
    created,    \* every AsyncClient constructed so far
    open,       \* the AsyncClients not yet closed
    response,   \* per invocation: what client.get returned
    events,     \* per invocation: GET, log, json and parse_response calls, in order
    outcome     \* per invocation: what the caller receives

httpVars == <<service, pc, args, frame, client, created, open, response, events, outcome>>

\* --------------------------------------------------- models.py: the state

VARIABLES
    user_account,     \* rows of User:           user_id, email
    refresh_token,    \* rows of RefreshToken:   id, refresh_token, user_id
    role,             \* rows of Role:           role_id, name
    user_role,        \* rows of UserRole:       id, user_id, role_id
    permission,       \* rows of Permission:     permission_id, name
    role_permission,  \* rows of RolePermission: id, role_id, permission_id
    audit_log,        \* rows of AuditLog:       log_id, user_id
    stmt              \* the last statement and how the database answered it

tables == <<user_account, refresh_token, role, user_role, permission,
            role_permission, audit_log>>
dbVars == <<tables, stmt>>

vars == <<httpVars, dbVars>>

NoArgs == [request_data |-> ""]
NoFrame == [url |-> <<>>, headers |-> <<>>, params |-> {}]
NoResponse == [status |-> 0, content |-> <<>>]
NoValue == [type |-> "", n |-> 0]
Pending == [kind |-> "pending", value |-> NoValue, exc |-> NoExc]
Return(v) == [kind |-> "return", value |-> v, exc |-> NoExc]
Raise(e) == [kind |-> "raise", value |-> NoValue, exc |-> e]

\* One observable call made by make_request.
Event(ev, level, about) == [ev |-> ev, level |-> level, about |-> about]

\* logger.error(...) / logger.info(...)
LogError(about) == Event("log", "error", about)
LogInfo(about) == Event("log", "info", about)

HttpInit ==
    /\ service \in Services
    /\ pc = [i \in Calls |-> "idle"]
    /\ args = [i \in Calls |-> NoArgs]
    /\ frame = [i \in Calls |-> NoFrame]
    /\ client = [i \in Calls |-> 0]
    /\ created = {}
    /\ open = {}
    /\ response = [i \in Calls |-> NoResponse]
    /\ events = [i \in Calls |-> <<>>]
    /\ outcome = [i \in Calls |-> Pending]

\* ---------------------------------------------- BaseService.make_request

\* except httpx.HTTPStatusError as exc: the log message is built first
\* (decoding the body as UTF-8, which may raise), then logged, then raise exc.
HttpStatusHandler(url, resp) ==
    IF IsUtf8(resp.content)
    THEN [events |-> <<LogError("status")>>,
          outcome |-> Raise(Exc("HTTPStatusError", "raise_for_status"))]
    ELSE [events |-> <<>>,
          outcome |-> Raise(Exc("UnicodeDecodeError", "decode"))]

\* except Exception as exc: logger.error(... str(exc)); raise exc
RequestErrorHandler(url, exc) ==
    [events |-> <<LogError("request")>>, outcome |-> Raise(exc)]

\* ParseStage with the except block swallowing the error: no log, no raise,
\* None returned.
ParseStageSwallow(self, url, params, json) ==
    LET r == parse_response(self, json)
    IN  [events |-> <<Event("parse_response", "", "")>>,
         outcome |-> Return(IF r.ok THEN r.value ELSE [type |-> "", n |-> 0])]

\* ParseStage returning the decoded JSON itself instead of the parsed object.
ParseStageRawJson(self, url, params, json) ==
    LET r == parse_response(self, json)
    IN  IF r.ok
        THEN [events |-> <<Event("parse_response", "", "")>>,
              outcome |-> Return(json)]
        ELSE [events |-> <<Event("parse_response", "", ""), LogError("parse")>>,
              outcome |-> Raise(r.exc)]

\* try: return self.parse_response(response_data)
\* except Exception as exc: logger.error(...); raise exc
ParseStage(self, url, params, json) ==
    LET r == parse_response(self, json)
    IN  IF r.ok
        THEN [events |-> <<Event("parse_response", "", "")>>,
              outcome |-> Return(r.value)]
        ELSE [events |-> <<Event("parse_response", "", ""), LogError("parse")>>,
              outcome |-> Raise(r.exc)]

\* logger.info(... request successful); response_data = response.json();
\* then the parse stage.  response.json() is outside every try block.
SuccessStage(self, url, params, resp) ==
    LET j == ResponseJson(resp.content)
        head == <<LogInfo("success"), Event("json", "", "")>>
    IN  IF j.ok
        THEN LET p == ParseStage(self, url, params, j.value)
             IN  [events |-> head \o p.events, outcome |-> p.outcome]
        ELSE [events |-> head, outcome |-> Raise(j.exc)]

\* OnResponse with the `raise exc` of the HTTPStatusError handler missing:
\* the error is logged and the body carries on into the success stage.
OnResponseFallThrough(self, url, params, resp) ==
    IF IsSuccess(resp.status)
    THEN SuccessStage(self, url, params, resp)
    ELSE LET h == HttpStatusHandler(url, resp)
             t == SuccessStage(self, url, params, resp)
         IN  [events |-> h.events \o t.events, outcome |-> t.outcome]

\* Everything make_request does once client.get has returned `resp`:
\* raise_for_status and its handler, or the success stage.
OnResponse(self, url, params, resp) ==
    IF IsSuccess(resp.status)
    THEN SuccessStage(self, url, params, resp)
    ELSE HttpStatusHandler(url, resp)

\* The call of make_request up to `async with`: get_endpoint, url, headers,
\* model_dump.  A raise here reaches the caller directly: no try block and
\* no client yet.
Invoke(i, request_data) ==
    /\ pc[i] = "idle"
    /\ args' = [args EXCEPT ![i] = [request_data |-> request_data]]
    /\ LET e == get_endpoint(service)
           d == model_dump(request_data)
       IN  IF ~e.ok
           THEN /\ outcome' = [outcome EXCEPT ![i] = Raise(e.exc)]
                /\ pc' = [pc EXCEPT ![i] = "done"]
                /\ UNCHANGED frame
           ELSE IF ~d.ok
           THEN /\ outcome' = [outcome EXCEPT ![i] = Raise(d.exc)]
                /\ pc' = [pc EXCEPT ![i] = "done"]
                /\ frame' = [frame EXCEPT ![i] =
                        [url |-> Url(BaseUrl, e.value),
                         headers |-> Headers(AccessToken), params |-> {}]]
           ELSE /\ frame' = [frame EXCEPT ![i] =
                        [url |-> Url(BaseUrl, e.value),
                         headers |-> Headers(AccessToken), params |-> d.value]]
                /\ pc' = [pc EXCEPT ![i] = "enter"]
                /\ UNCHANGED outcome
    /\ UNCHANGED <<service, client, created, open, response, events, dbVars>>

\* async with httpx.AsyncClient() as client: a new client per invocation.
EnterClient(i) ==
    /\ pc[i] = "enter"
    /\ LET c == Cardinality(created) + 1
       IN  /\ client' = [client EXCEPT ![i] = c]
           /\ created' = created \cup {c}
           /\ open' = open \cup {c}
    /\ pc' = [pc EXCEPT ![i] = "get"]
    /\ UNCHANGED <<service, args, frame, response, events, outcome, dbVars>>

\* await client.get(url, headers=headers, params=params, timeout=15):
\* the request goes out and the task is suspended.
SendGet(i) ==
    /\ pc[i] = "get"
    /\ client[i] \in open
    /\ events' = [events EXCEPT ![i] =
            Append(@, Event("GET", "", [url |-> frame[i].url,
                                        headers |-> frame[i].headers,
                                        params |-> frame[i].params,
                                        timeout |-> Timeout]))]
    /\ pc' = [pc EXCEPT ![i] = "await"]
    /\ UNCHANGED <<service, args, frame, client, created, open, response, outcome, dbVars>>

\* client.get returns a response; the rest of the body runs to its end.
GetReturns(i, resp) ==
    /\ pc[i] = "await"
    /\ response' = [response EXCEPT ![i] = resp]
    /\ LET r == OnResponse(service, frame[i].url, frame[i].params, resp)
       IN  /\ events' = [events EXCEPT ![i] = @ \o r.events]
           /\ outcome' = [outcome EXCEPT ![i] = r.outcome]
    /\ pc' = [pc EXCEPT ![i] = "exit"]
    /\ UNCHANGED <<service, args, frame, client, created, open, dbVars>>

\* GetRaises with a retry: the fault is logged and the GET is issued again.
GetRaisesRetry(i, fault) ==
    /\ pc[i] = "await"
    /\ events' = [events EXCEPT ![i] = Append(@, LogError("request"))]
    /\ pc' = [pc EXCEPT ![i] = "get"]
    /\ UNCHANGED <<service, args, frame, client, created, open, response, outcome, dbVars>>

\* client.get raises a transport fault (connection failure, timeout).
GetRaises(i, fault) ==
    /\ pc[i] = "await"
    /\ LET r == RequestErrorHandler(frame[i].url, Exc(fault, "get"))
       IN  /\ events' = [events EXCEPT ![i] = @ \o r.events]
           /\ outcome' = [outcome EXCEPT ![i] = r.outcome]
    /\ pc' = [pc EXCEPT ![i] = "exit"]
    /\ UNCHANGED <<service, args, frame, client, created, open, response, dbVars>>

\* ExitClient with the client closed by an explicit aclose() at the end of
\* the body instead of `async with`: a raise skips it.
ExitClientOnReturnOnly(i) ==
    /\ pc[i] = "exit"
    /\ open' = IF outcome[i].kind = "return" THEN open \ {client[i]} ELSE open
    /\ pc' = [pc EXCEPT ![i] = "done"]
    /\ UNCHANGED <<service, args, frame, client, created, response, events, outcome, dbVars>>

\* AsyncClient.__aexit__: leaving the `async with` block, by return or by
\* raise, closes the client; then the caller receives the outcome.
ExitClient(i) ==
    /\ pc[i] = "exit"
    /\ open' = open \ {client[i]}
    /\ pc' = [pc EXCEPT ![i] = "done"]
    /\ UNCHANGED <<service, args, frame, client, created, response, events, outcome, dbVars>>

HttpNext ==
    \/ \E i \in Calls, request_data \in Requests : Invoke(i, request_data)
    \/ \E i \in Calls : EnterClient(i)
    \/ \E i \in Calls : SendGet(i)
    \/ \E i \in Calls, status \in Statuses, content \in Bodies :
            GetReturns(i, [status |-> status, content |-> content])
    \/ \E i \in Calls, fault \in TransportErrors : GetRaises(i, fault)
    \/ \E i \in Calls : ExitClient(i)


\* ------------------------------------------------ models.py: the tables
\* The columns that carry a constraint are modelled: primary keys, unique
\* columns and foreign keys (all NOT NULL).  The statements are those of the
\* database the tables are created in: a violated constraint makes the
\* statement fail and leaves every table as it was.

\* NULL, as a value offered for a foreign-key column.
NULL == 0

\* A delete of a parent row also records `removed`, the number of rows the
\* statement removed, the cascaded ones included.
Stmt(op, row, result) == [op |-> op, row |-> row, result |-> result]

TotalRows ==
    Cardinality(user_account) + Cardinality(refresh_token) + Cardinality(role)
    + Cardinality(user_role) + Cardinality(permission)
    + Cardinality(role_permission) + Cardinality(audit_log)

DbInit ==
    /\ user_account = {}
    /\ refresh_token = {}
    /\ role = {}
    /\ user_role = {}
    /\ permission = {}
    /\ role_permission = {}
    /\ audit_log = {}
    /\ stmt = Stmt("", <<>>, "")

\* ForeignKey("user_account.user_id"), on a NOT NULL column.
UserExists(user_id) == \E u \in user_account : u.user_id = user_id
\* ForeignKey("role.role_id"), on a NOT NULL column.
RoleExists(role_id) == \E r \in role : r.role_id = role_id
\* ForeignKey("permission.permission_id"), on a NOT NULL column.
PermissionExists(permission_id) ==
    \E p \in permission : p.permission_id = permission_id

\* UserInsertable with unique=True missing on email.
UserInsertableNoUniqueEmail(row) ==
    \A u \in user_account : u.user_id # row.user_id

\* INSERT INTO user_account: user_id primary key, email unique.
UserInsertable(row) ==
    /\ \A u \in user_account : u.user_id # row.user_id
    /\ \A u \in user_account : u.email # row.email

\* INSERT INTO refresh_token: id primary key, refresh_token unique,
\* user_id references user_account.
RefreshTokenInsertable(row) ==
    /\ \A t \in refresh_token : t.id # row.id
    /\ \A t \in refresh_token : t.refresh_token # row.refresh_token
    /\ UserExists(row.user_id)

\* INSERT INTO role: role_id primary key, name unique.
RoleInsertable(row) ==
    /\ \A r \in role : r.role_id # row.role_id
    /\ \A r \in role : r.name # row.name

\* INSERT INTO permission: permission_id primary key, name unique.
PermissionInsertable(row) ==
    /\ \A q \in permission : q.permission_id # row.permission_id
    /\ \A q \in permission : q.name # row.name

\* INSERT INTO user_role: id primary key, both foreign keys.
UserRoleInsertable(row) ==
    /\ \A x \in user_role : x.id # row.id
    /\ UserExists(row.user_id)
    /\ RoleExists(row.role_id)

\* INSERT INTO role_permission: id primary key, both foreign keys.
RolePermissionInsertable(row) ==
    /\ \A x \in role_permission : x.id # row.id
    /\ RoleExists(row.role_id)
    /\ PermissionExists(row.permission_id)

\* INSERT INTO audit_log: log_id primary key, user_id foreign key.
AuditLogInsertable(row) ==
    /\ \A a \in audit_log : a.log_id # row.log_id
    /\ UserExists(row.user_id)

InsertUser(row) ==
    /\ TotalRows < MaxRows
    /\ IF UserInsertable(row)
       THEN /\ user_account' = user_account \cup {row}
            /\ stmt' = Stmt("insert_user", row, "ok")
       ELSE /\ UNCHANGED user_account
            /\ stmt' = Stmt("insert_user", row, "IntegrityError")
    /\ UNCHANGED <<refresh_token, role, user_role, permission, role_permission,
                   audit_log, httpVars>>

InsertRefreshToken(row) ==
    /\ TotalRows < MaxRows
    /\ IF RefreshTokenInsertable(row)
       THEN /\ refresh_token' = refresh_token \cup {row}
            /\ stmt' = Stmt("insert_refresh_token", row, "ok")
       ELSE /\ UNCHANGED refresh_token
            /\ stmt' = Stmt("insert_refresh_token", row, "IntegrityError")
    /\ UNCHANGED <<user_account, role, user_role, permission, role_permission,
                   audit_log, httpVars>>

InsertRole(row) ==
    /\ TotalRows < MaxRows
    /\ IF RoleInsertable(row)
       THEN /\ role' = role \cup {row}
            /\ stmt' = Stmt("insert_role", row, "ok")
       ELSE /\ UNCHANGED role
            /\ stmt' = Stmt("insert_role", row, "IntegrityError")
    /\ UNCHANGED <<user_account, refresh_token, user_role, permission,
                   role_permission, audit_log, httpVars>>

InsertPermission(row) ==
    /\ TotalRows < MaxRows
    /\ IF PermissionInsertable(row)
       THEN /\ permission' = permission \cup {row}
            /\ stmt' = Stmt("insert_permission", row, "ok")
       ELSE /\ UNCHANGED permission
            /\ stmt' = Stmt("insert_permission", row, "IntegrityError")
    /\ UNCHANGED <<user_account, refresh_token, role, user_role,
                   role_permission, audit_log, httpVars>>

InsertUserRole(row) ==
    /\ TotalRows < MaxRows
    /\ IF UserRoleInsertable(row)
       THEN /\ user_role' = user_role \cup {row}
            /\ stmt' = Stmt("insert_user_role", row, "ok")
       ELSE /\ UNCHANGED user_role
            /\ stmt' = Stmt("insert_user_role", row, "IntegrityError")
    /\ UNCHANGED <<user_account, refresh_token, role, permission,
                   role_permission, audit_log, httpVars>>

InsertRolePermission(row) ==
    /\ TotalRows < MaxRows
    /\ IF RolePermissionInsertable(row)
       THEN /\ role_permission' = role_permission \cup {row}
            /\ stmt' = Stmt("insert_role_permission", row, "ok")
       ELSE /\ UNCHANGED role_permission
            /\ stmt' = Stmt("insert_role_permission", row, "IntegrityError")
    /\ UNCHANGED <<user_account, refresh_token, role, user_role, permission,
                   audit_log, httpVars>>

InsertAuditLog(row) ==
    /\ TotalRows < MaxRows
    /\ IF AuditLogInsertable(row)
       THEN /\ audit_log' = audit_log \cup {row}
            /\ stmt' = Stmt("insert_audit_log", row, "ok")
       ELSE /\ UNCHANGED audit_log
            /\ stmt' = Stmt("insert_audit_log", row, "IntegrityError")
    /\ UNCHANGED <<user_account, refresh_token, role, user_role, permission,
                   role_permission, httpVars>>

\* DeleteUser with ondelete="CASCADE" missing on refresh_token.user_id and
\* the foreign key not enforced: the tokens stay behind.
DeleteUserNoTokenCascade(user_id) ==
    /\ UserExists(user_id)
    /\ user_account' = {u \in user_account : u.user_id # user_id}
    /\ user_role' = {x \in user_role : x.user_id # user_id}
    /\ audit_log' = {a \in audit_log : a.user_id # user_id}
    /\ UNCHANGED <<refresh_token, role, permission, role_permission, httpVars>>
    /\ stmt' = Stmt("delete_user",
                     [user_id |-> user_id, removed |-> TotalRows - TotalRows'], "ok")

\* DELETE FROM user_account WHERE user_id = :user_id, with ON DELETE CASCADE
\* on refresh_token.user_id, user_role.user_id and audit_log.user_id.
DeleteUser(user_id) ==
    /\ UserExists(user_id)
    /\ user_account' = {u \in user_account : u.user_id # user_id}
    /\ refresh_token' = {t \in refresh_token : t.user_id # user_id}
    /\ user_role' = {x \in user_role : x.user_id # user_id}
    /\ audit_log' = {a \in audit_log : a.user_id # user_id}
    /\ UNCHANGED <<role, permission, role_permission, httpVars>>
    /\ stmt' = Stmt("delete_user",
                     [user_id |-> user_id, removed |-> TotalRows - TotalRows'], "ok")

\* DELETE FROM role WHERE role_id = :role_id, with ON DELETE CASCADE on
\* user_role.role_id and role_permission.role_id.
DeleteRole(role_id) ==
    /\ RoleExists(role_id)
    /\ role' = {r \in role : r.role_id # role_id}
    /\ user_role' = {x \in user_role : x.role_id # role_id}
    /\ role_permission' = {x \in role_permission : x.role_id # role_id}
    /\ UNCHANGED <<user_account, refresh_token, permission, audit_log, httpVars>>
    /\ stmt' = Stmt("delete_role",
                     [role_id |-> role_id, removed |-> TotalRows - TotalRows'], "ok")

\* DELETE FROM permission WHERE permission_id = :permission_id, with
\* ON DELETE CASCADE on role_permission.permission_id.
DeletePermission(permission_id) ==
    /\ PermissionExists(permission_id)
    /\ permission' = {q \in permission : q.permission_id # permission_id}
    /\ role_permission' =
            {x \in role_permission : x.permission_id # permission_id}
    /\ UNCHANGED <<user_account, refresh_token, role, user_role, audit_log,
                   httpVars>>
    /\ stmt' = Stmt("delete_permission",
                     [permission_id |-> permission_id,
                      removed |-> TotalRows - TotalRows'], "ok")

\* DELETE of one row of a table nothing references.
DeleteRefreshToken(id) ==
    /\ \E t \in refresh_token : t.id = id
    /\ refresh_token' = {t \in refresh_token : t.id # id}
    /\ stmt' = Stmt("delete_refresh_token", [id |-> id], "ok")
    /\ UNCHANGED <<user_account, role, user_role, permission, role_permission,
                   audit_log, httpVars>>

DeleteUserRole(id) ==
    /\ \E x \in user_role : x.id = id
    /\ user_role' = {x \in user_role : x.id # id}
    /\ stmt' = Stmt("delete_user_role", [id |-> id], "ok")
    /\ UNCHANGED <<user_account, refresh_token, role, permission,
                   role_permission, audit_log, httpVars>>

DeleteRolePermission(id) ==
    /\ \E x \in role_permission : x.id = id
    /\ role_permission' = {x \in role_permission : x.id # id}
    /\ stmt' = Stmt("delete_role_permission", [id |-> id], "ok")
    /\ UNCHANGED <<user_account, refresh_token, role, user_role, permission,
                   audit_log, httpVars>>

DeleteAuditLog(log_id) ==
    /\ \E a \in audit_log : a.log_id = log_id
    /\ audit_log' = {a \in audit_log : a.log_id # log_id}
    /\ stmt' = Stmt("delete_audit_log", [log_id |-> log_id], "ok")
    /\ UNCHANGED <<user_account, refresh_token, role, user_role, permission,
                   role_permission, httpVars>>

\* Foreign-key values a statement may offer: a key, or NULL.
Refs == Keys \cup {NULL}

DbNext ==
    \/ \E k \in Keys, n \in Names : InsertUser([user_id |-> k, email |-> n])
    \/ \E k \in Keys, n \in Names, u \in Refs :
            InsertRefreshToken([id |-> k, refresh_token |-> n, user_id |-> u])
    \/ \E k \in Keys, n \in Names : InsertRole([role_id |-> k, name |-> n])
    \/ \E k \in Keys, n \in Names :
            InsertPermission([permission_id |-> k, name |-> n])
    \/ \E k \in Keys, u \in Refs, r \in Refs :
            InsertUserRole([id |-> k, user_id |-> u, role_id |-> r])
    \/ \E k \in Keys, r \in Refs, q \in Refs :
            InsertRolePermission([id |-> k, role_id |-> r, permission_id |-> q])
    \/ \E k \in Keys, u \in Refs : InsertAuditLog([log_id |-> k, user_id |-> u])
    \/ \E k \in Keys : DeleteUser(k)
    \/ \E k \in Keys : DeleteRole(k)
    \/ \E k \in Keys : DeletePermission(k)
    \/ \E k \in Keys : DeleteRefreshToken(k)
    \/ \E k \in Keys : DeleteUserRole(k)
    \/ \E k \in Keys : DeleteRolePermission(k)
    \/ \E k \in Keys : DeleteAuditLog(k)

\* ------------------------------------------------------ specifications

\* Concurrent make_request invocations; the database is not touched.
Init == HttpInit /\ DbInit

Next == HttpNext

Spec == Init /\ [][Next]_vars

\* Statements against the schema; no make_request is running.
InitDb == DbInit /\ HttpInit /\ service = "strict"

NextDb == DbNext

SpecDb == InitDb /\ [][NextDb]_vars

\* ------------------------------------------ make_request: observations

CountEv(i, ev) == Len(SelectSeq(events[i], LAMBDA e : e.ev = ev))
LogCalls(i) == CountEv(i, "log")
ErrorLogs(i) ==
    Len(SelectSeq(events[i], LAMBDA e : e.ev = "log" /\ e.level = "error"))
InfoLogs(i) ==
    Len(SelectSeq(events[i], LAMBDA e : e.ev = "log" /\ e.level = "info"))

Done(i) == pc[i] = "done"
GotResponse(i) == response[i].status # 0
Finished(i) == pc[i] \in {"exit", "done"}
\* client.get raised: the GET was issued, the body is over, no response.
GetRaised(i) == Finished(i) /\ CountEv(i, "GET") = 1 /\ ~GotResponse(i)
DecodedJson(i) == ResponseJson(response[i].content)
\* parse_response was called, and what it did.
ParseCalled(i) == CountEv(i, "parse_response") > 0
ParseResult(i) == parse_response(service, DecodedJson(i).value)
ParseRaised(i) == Done(i) /\ ParseCalled(i) /\ ~ParseResult(i).ok
\* Every step of the invocation succeeded.
AllStepsOk(i) ==
    /\ get_endpoint(service).ok
    /\ model_dump(args[i].request_data).ok
    /\ GotResponse(i)
    /\ IsSuccess(response[i].status)
    /\ DecodedJson(i).ok
    /\ ParseResult(i).ok
None == NoValue

\* ------------------------------------------------- make_request: claims

\* C1 (as stated): whenever the GET completes with a status outside 2xx,
\* make_request raises and has made exactly one error-level log call.
C1_NonSuccessRaisesAfterOneErrorLog ==
    \A i \in Calls :
        (Done(i) /\ GotResponse(i) /\ ~IsSuccess(response[i].status))
            => (outcome[i].kind = "raise" /\ ErrorLogs(i) = 1)

\* C2 (as stated): whenever parse_response raises, make_request raises the
\* same exception and exactly one log call was made during the invocation.
C2_ParseRaiseOneLogCall ==
    \A i \in Calls :
        ParseRaised(i)
            => (outcome[i] = Raise(ParseResult(i).exc) /\ LogCalls(i) = 1)

\* C2 (amended): whenever parse_response raises, make_request raises the same
\* exception after exactly one error-level log call, which follows the
\* parse_response call and comes in addition to the one info-level success
\* log: two log calls in all.
C2_ParseRaiseOneErrorLog ==
    \A i \in Calls :
        ParseRaised(i)
            => /\ outcome[i] = Raise(ParseResult(i).exc)
               /\ ErrorLogs(i) = 1
               /\ InfoLogs(i) = 1
               /\ LogCalls(i) = 2
               /\ events[i][Len(events[i])] = LogError("parse")
               /\ events[i][Len(events[i]) - 1].ev = "parse_response"

C2_Witness ==
    \E i \in Calls : ParseRaised(i) /\ outcome[i].kind = "raise"

\* C3 (as stated): every invocation that fails at any step raises to the
\* caller, and an error log line was emitted before the raise.
C3_EveryFailureLoggedThenRaised ==
    \A i \in Calls :
        (Done(i) /\ ~AllStepsOk(i))
            => (outcome[i].kind = "raise" /\ ErrorLogs(i) >= 1)

\* C4 (as stated): make_request returns a ResponseType instance when request
\* and parsing succeed, and returns None otherwise.
C4_ReturnsNoneOnFailure ==
    \A i \in Calls :
        Done(i) =>
            IF AllStepsOk(i)
            THEN outcome[i].kind = "return" /\ outcome[i].value.type = "ResponseType"
            ELSE outcome[i] = Return(None)

C6_ClientScopedToInvocation ==
    /\ \A i \in Calls : pc[i] \in {"get", "await", "exit"} => client[i] \in open
    /\ \A i \in Calls : Done(i) => client[i] \notin open
    /\ \A i, j \in Calls :
            (i # j /\ client[i] # 0 /\ client[j] # 0) => client[i] # client[j]
    /\ open = {client[i] : i \in {k \in Calls : pc[k] \in {"get", "await", "exit"}}}
    /\ created = {client[i] : i \in {k \in Calls : client[k] # 0}}

C6_Witness ==
    \E i, j \in Calls :
        /\ i # j
        /\ Done(i) /\ outcome[i].kind = "raise" /\ client[i] # 0
        /\ client[i] \notin open
        /\ pc[j] = "await" /\ client[j] \in open

\* C7: an invocation never issues more than one GET, and one that has
\* reached the network has issued exactly one, whatever came back.
C7_ExactlyOneGet ==
    \A i \in Calls :
        /\ CountEv(i, "GET") <= 1
        /\ (pc[i] \in {"await", "exit"} \/ (Done(i) /\ client[i] # 0))
                => CountEv(i, "GET") = 1

C7_Witness ==
    \E i, j \in Calls :
        /\ Done(i) /\ GetRaised(i) /\ CountEv(i, "GET") = 1
        /\ Done(j) /\ GotResponse(j) /\ ~IsSuccess(response[j].status)
        /\ CountEv(j, "GET") = 1

\* C10: parse_response is called at most once, and only after a 2xx response
\* and the success info log; when the GET raised or the status was not 2xx
\* there is neither a success info log nor a parse_response call; and no
\* invocation makes more than one error-level log call.
C10_EventOrder ==
    \A i \in Calls :
        /\ CountEv(i, "parse_response") <= 1
        /\ InfoLogs(i) <= 1
        /\ ErrorLogs(i) <= 1
        /\ \A k \in 1..Len(events[i]) :
                events[i][k].ev = "parse_response"
                    => /\ GotResponse(i) /\ IsSuccess(response[i].status)
                       /\ \E j \in 1..(k - 1) : events[i][j] = LogInfo("success")
                       /\ \E j \in 1..(k - 1) : events[i][j].ev = "GET"
        /\ (GetRaised(i) \/ (GotResponse(i) /\ ~IsSuccess(response[i].status)))
                => (InfoLogs(i) = 0 /\ ~ParseCalled(i))

C10_Witness ==
    \E i, j \in Calls :
        /\ Done(i) /\ ParseCalled(i) /\ InfoLogs(i) = 1
        /\ Done(j) /\ GotResponse(j) /\ ~IsSuccess(response[j].status)
        /\ ErrorLogs(j) = 1

\* ------------------------------------------------------ schema: claims

\* Every child row references an existing parent row.
ReferentialIntegrity ==
    /\ \A t \in refresh_token : UserExists(t.user_id)
    /\ \A x \in user_role : UserExists(x.user_id) /\ RoleExists(x.role_id)
    /\ \A a \in audit_log : UserExists(a.user_id)
    /\ \A x \in role_permission :
            RoleExists(x.role_id) /\ PermissionExists(x.permission_id)

\* C8: after any sequence of inserts and deletes every child row references
\* an existing parent row; and right after a User (a Role) has been deleted
\* neither it nor any row that referenced it exists.
C8_ReferentialIntegrity ==
    /\ ReferentialIntegrity
    /\ stmt.op = "delete_user" =>
            /\ stmt.result = "ok"
            /\ ~UserExists(stmt.row.user_id)
            /\ \A t \in refresh_token : t.user_id # stmt.row.user_id
            /\ \A x \in user_role : x.user_id # stmt.row.user_id
            /\ \A a \in audit_log : a.user_id # stmt.row.user_id
    /\ stmt.op = "delete_role" =>
            /\ stmt.result = "ok"
            /\ ~RoleExists(stmt.row.role_id)
            /\ \A x \in user_role : x.role_id # stmt.row.role_id
            /\ \A x \in role_permission : x.role_id # stmt.row.role_id

\* A User with two dependent rows has just been deleted, taking them along.
C8_Witness ==
    /\ stmt.op = "delete_user"
    /\ stmt.row.removed >= 3
    /\ TotalRows >= 1

\* No two rows of a table share the value of a unique column.
UniqueColumns ==
    /\ \A u, v \in user_account : u.email = v.email => u = v
    /\ \A t, v \in refresh_token : t.refresh_token = v.refresh_token => t = v
    /\ \A r, v \in role : r.name = v.name => r = v
    /\ \A q, v \in permission : q.name = v.name => q = v

\* An INSERT of a User whose email a row already holds fails with a
\* constraint violation and changes no table.
DuplicateEmailRejected ==
    (stmt'.op = "insert_user"
        /\ \E u \in user_account : u.email = stmt'.row.email)
    => (stmt'.result = "IntegrityError" /\ UNCHANGED tables)

\* C9: inserting a User with the email of an existing User fails with a
\* constraint violation and leaves the tables unchanged; and in every
\* reachable state no two User rows share an email, no two RefreshToken rows
\* a refresh_token, no two Role rows a name, no two Permission rows a name.
C9_UniqueEmail == []UniqueColumns /\ [][DuplicateEmailRejected]_vars

\* An INSERT of a User has just failed on the email alone: another user_id
\* holds that email, and the offered user_id is free.
C9_Witness ==
    /\ stmt.op = "insert_user"
    /\ stmt.result = "IntegrityError"
    /\ \E u \in user_account : u.email = stmt.row.email
    /\ ~UserExists(stmt.row.user_id)

====
